---- MODULE Spec2Model ----
(***************************************************************************)
(* The signing playground of the API tester (frontend/src/app/sign/page.tsx *)
(* SignContent): the React state of the page, the operator's actions on    *)
(* it, and the unified verification effect that checks the signature the   *)
(* custody service returned against the selected wallet.                   *)
(*                                                                         *)
(* Cryptography is a library the page calls.  A signature is modelled by   *)
(* what it was made from: the key that signed, the byte string (or digest) *)
(* it was made over and, for recoverable ECDSA, its recovery parity.  A    *)
(* library check succeeds exactly when these agree with its arguments.     *)
(***************************************************************************)
EXTENDS Integers, Sequences, FiniteSets, TLC

VARIABLES
    wallet,              \* selectedWalletData (chain = getChainById(wallet.blockchain))
    signType,            \* 'message' | 'typed-data' | 'transaction' | 'delegate-action'
    msgContent,          \* msgBuilder.content
    encodedByHex,        \* the 'Treat as Hex' toggle
    message,             \* the message textarea, synced from the builder
    typedData,           \* the typed-data textarea
    result,              \* the signature result, or NoResult (null)
    verificationResult,  \* {status, message}, or NoVerification (null)
    signing,             \* handleSign is awaiting the custody service
    suspended,           \* verify() runs waiting on `await cryptoWaitReady()`, oldest first
    attempts,            \* history: the library checks made by the run that set verificationResult
    ranOn,               \* history: the page state that run was made on
    raised,              \* history: the error that run caught, "" when it caught none
    steps,               \* history: how many actions the operator and the service have taken,
                         \* and how many requests the backend has received
    customerId,          \* user.customerId, "" when the user has none
    walletCustomer,      \* selectedWalletData.customer, "" when the wallet has none
    calls,               \* history: the API calls handleSign has made, oldest first
    location,            \* "page" (the sign page is shown) or "hosted" (redirected away)
    challenge,           \* the challenge the page was loaded for, or NoChallenge
    errorText,           \* the error banner, "" when none
    users,               \* backend: the users collection of the store, oldest first
    sessions,            \* backend: the sessions collection of the store, oldest first
    clock,               \* backend: the time (new Date())
    hashing,             \* backend: per email, the signups waiting on bcrypt.hash
    creating,            \* backend: the ids of the users whose signup waits on createWalletSet
    issued,              \* backend: how many session tokens uuidv4 has produced
    loggedOut,           \* history: the tokens for which POST /auth/logout has succeeded
    response             \* history: the last response sent, with the request it answers

vars == << wallet, signType, msgContent, encodedByHex, message, typedData,
           result, verificationResult, signing, suspended, attempts, ranOn, raised, steps,
           customerId, walletCustomer, calls, location, challenge, errorText,
           users, sessions, clock, hashing, creating, issued, loggedOut, response >>

\* The state of the custody modes, which the organization-mode page leaves alone.
custodyVars == << customerId, walletCustomer, calls, location, challenge, errorText >>

\* The state of the browser page, which the backend leaves alone.
pageVars == << wallet, signType, msgContent, encodedByHex, message, typedData,
               result, verificationResult, signing, suspended, attempts, ranOn, raised >>

\* The state of the backend, which the page leaves alone.
backendVars == << users, sessions, clock, hashing, creating, issued, loggedOut, response >>

-----------------------------------------------------------------------------
(* Bounds *)

\* How many verify() runs may be suspended on the crypto initialisation at once.
MaxSuspended == 1

\* How many actions of the operator and answers of the custody service one
\* session of the page is followed for.
MaxSteps == 4

-----------------------------------------------------------------------------
(* Text and bytes.  A string is a sequence of one-character strings; bytes  *)
(* are a sequence of numbers.                                               *)

HexDigits == << "0", "1", "2", "3", "4", "5", "6", "7", "8", "9",
                "a", "b", "c", "d", "e", "f" >>

IsHexDigit(c) == \E i \in 1..16 : HexDigits[i] = c

HexVal(c) == (CHOOSE i \in 1..16 : HexDigits[i] = c) - 1

\* The characters the model's messages are written with, and their code points.
CharCode(c) ==
    CASE c = "0" -> 48 [] c = "1" -> 49 [] c = "2" -> 50 [] c = "3" -> 51
      [] c = "4" -> 52 [] c = "5" -> 53 [] c = "6" -> 54 [] c = "7" -> 55
      [] c = "8" -> 56 [] c = "9" -> 57 [] c = "a" -> 97 [] c = "b" -> 98
      [] c = "c" -> 99 [] c = "d" -> 100 [] c = "e" -> 101 [] c = "f" -> 102
      [] c = "h" -> 104 [] c = "i" -> 105 [] c = "x" -> 120

\* new TextEncoder().encode(str)
TextEncode(str) == [i \in 1..Len(str) |-> CharCode(str[i])]

\* b.toString(16).padStart(2, '0') of every byte, joined
BytesToHex(bytes) ==
    [i \in 1..(2 * Len(bytes)) |->
        IF i % 2 = 1 THEN HexDigits[(bytes[(i + 1) \div 2] \div 16) + 1]
                     ELSE HexDigits[(bytes[i \div 2] % 16) + 1]]

StartsWith0x(str) == Len(str) >= 2 /\ str[1] = "0" /\ str[2] = "x"

\* ethers.isHexString / the test inside ethers.getBytes: ^0x([0-9a-f][0-9a-f])*$
IsBytesLike(str) ==
    /\ StartsWith0x(str)
    /\ Len(str) % 2 = 0
    /\ \A i \in 3..Len(str) : IsHexDigit(str[i])

\* ethers.getBytes(str) for a string that IsBytesLike; anything else throws
GetBytes(str) ==
    [i \in 1..((Len(str) - 2) \div 2) |->
        16 * HexVal(str[2 * i + 1]) + HexVal(str[2 * i + 2])]

\* A byte string the libraries hash or verify: the bytes, and the hash applied
\* to them ("none" for the bytes themselves).  Hashes are collision free.
Raw(bytes) == [h |-> "none", data |-> bytes]
Hashed(name, bytes) == [h |-> name, data |-> bytes]

-----------------------------------------------------------------------------
(* Keys, addresses, wallets *)

WalletKey == "K1"      \* the key behind every wallet of the operator
OtherKey  == "K2"      \* somebody else's key
NoKey     == "none"    \* what recovery yields when nothing matches: nobody's key

\* An EVM address: the key it belongs to and whether it is written in lower case.
\* ethers returns checksummed (mixed case) addresses.
ComputeAddress(key) == [key |-> key, lower |-> FALSE]
ToLowerCase(addr) == [addr EXCEPT !.lower = TRUE]

\* An address the custody service reports that is no address of any chain.
MalformedAddress == [key |-> "malformed", lower |-> TRUE]

\* The address decodes in the chain's format (bs58check, bech32, ss58).
IsAddress(addr) == addr # MalformedAddress

ChainTypes == {"evm", "btc", "sol", "cosmos", "near", "dot"}

\* The wallets of the operator.  publicKey is its wire form: "0xhex", "hex"
\* (64 hex characters), "b58", or "bad" (no form the chain's key parser accepts).
\* There are two EVM wallets, one with the address in checksum case and one
\* in lower case; Solana and NEAR wallets with a public key that is no key;
\* EVM, Bitcoin and Substrate wallets with an address that is no address.
Wallets ==
    { [type |-> "evm", address |-> a, publicKey |-> "0xhex"] :
        a \in {ComputeAddress(WalletKey), ToLowerCase(ComputeAddress(WalletKey))} }
    \cup
    { [type |-> t, address |-> ComputeAddress(WalletKey), publicKey |-> "0xhex"] :
        t \in {"btc", "cosmos", "dot"} }
    \cup
    { [type |-> t, address |-> ComputeAddress(WalletKey), publicKey |-> p] :
        t \in {"sol", "near"}, p \in {"b58", "bad"} }
    \cup
    { [type |-> t, address |-> MalformedAddress, publicKey |-> "0xhex"] :
        t \in {"evm", "btc", "dot"} }

-----------------------------------------------------------------------------
(* Signature material *)

\* What a signature was made from.  parity is the recovery parity of a
\* recoverable ECDSA signature (0 or 1); other schemes leave it 0.
Core(signer, over, parity) == [signer |-> signer, over |-> over, parity |-> parity]

\* Bytes that are no signature by anybody over anything the page hashes.
GarbageCore == Core(NoKey, Hashed("garbage", << >>), 0)

\* A signature string on the wire: its encoding ("hex", "b58", "b64"), whether
\* it carries a 0x prefix, how many bytes it encodes, whose signature the first
\* 64 bytes are, and byte 65 (the recovery id) when there is one.
SigString(enc, pfx, nbytes, core, vbyte) ==
    [enc |-> enc, pfx |-> pfx, nbytes |-> nbytes, core |-> core, vbyte |-> vbyte]

EmptyString == SigString("hex", FALSE, 0, GarbageCore, 0)     \* ''

\* Decoded signature bytes: how many, and whose signature they are.
Bytes(nbytes, core) == [nbytes |-> nbytes, core |-> core]

\* The r or s field of a result: a hex string, with or without 0x, well formed
\* (32 bytes of hex) or not.
RS(pfx, wf, core) == [pfx |-> pfx, wf |-> wf, core |-> core]

\* An optional field is << >> (undefined) or << value >>.
Undefined == << >>
Some(x) == << x >>
IsDefined(opt) == opt # << >>
Val(opt) == opt[1]

\* A sign result as the custody service (or a challenge) returns it: signature
\* is a string, or an object {signature, r, s, v}; r, s, v may also be top level.
NoResult ==
    [present |-> FALSE, sigIsObject |-> FALSE, sigStr |-> EmptyString,
     objR |-> Undefined, objS |-> Undefined, objV |-> Undefined,
     r |-> Undefined, s |-> Undefined, v |-> Undefined,
     signedTransaction |-> FALSE]

StringResult(str) == [NoResult EXCEPT !.present = TRUE, !.sigStr = str]

TopLevelResult(str, r, s, v) ==
    [StringResult(str) EXCEPT !.r = r, !.s = s, !.v = v]

NestedResult(str, r, s, v) ==
    [StringResult(str) EXCEPT !.sigIsObject = TRUE, !.objR = r, !.objS = s, !.objV = v]

NoVerification == [status |-> "none", message |-> ""]

-----------------------------------------------------------------------------
(* Library results: a value, or a thrown error *)

Ok(value) == [ok |-> TRUE, value |-> value, error |-> ""]
Throw(value, msg) == [ok |-> FALSE, value |-> value, error |-> msg]

-----------------------------------------------------------------------------
(* ethers: Signature.from, hashMessage, recoverAddress, verifyMessage *)

\* An ethers.Signature: the r and s it holds and v in {27, 28}.
EthSignature(core, v) == [core |-> core, v |-> v]

NoSignature == EthSignature(GarbageCore, 0)

\* Signature.getNormalizedV: 0 and 27 are 27, 1 and 28 are 28, an EIP-155 v
\* (>= 35) is 27 when odd and 28 when even, anything else is an error.
IsValidV(v) == v \in {0, 1, 27, 28} \/ v >= 35

GetNormalizedV(v) ==
    IF v \in {0, 27} THEN 27
    ELSE IF v \in {1, 28} THEN 28
    ELSE IF v % 2 = 1 THEN 27 ELSE 28

\* ethers.Signature.from({r, s, v}): r and s must be 0x-prefixed 32-byte hex.
SignatureFromRSV(rHex, sHex, v) ==
    IF ~(rHex.pfx /\ rHex.wf) THEN Throw(NoSignature, "invalid r")
    ELSE IF ~(sHex.pfx /\ sHex.wf) THEN Throw(NoSignature, "invalid s")
    ELSE IF ~IsValidV(v) THEN Throw(NoSignature, "invalid v")
    ELSE Ok(EthSignature(IF rHex.core = sHex.core THEN rHex.core ELSE GarbageCore,
                         GetNormalizedV(v)))

\* ethers.Signature.from(string): 65 bytes are r, s, v; 64 bytes are the compact
\* form, whose parity bit is the top bit of s (clear for a canonical s, so 27).
SignatureFromString(str) ==
    IF ~(str.enc = "hex" /\ str.pfx) THEN Throw(NoSignature, "invalid BytesLike value")
    ELSE IF str.nbytes = 64 THEN Ok(EthSignature(str.core, 27))
    ELSE IF str.nbytes = 65 THEN
        IF IsValidV(str.vbyte) THEN Ok(EthSignature(str.core, GetNormalizedV(str.vbyte)))
        ELSE Throw(NoSignature, "invalid v")
    ELSE Throw(NoSignature, "invalid raw signature length")

\* The signature the EVM branch hands to ethers: a Signature object, a string,
\* or undefined.
SigObject(sig) == [kind |-> "object", sig |-> sig, str |-> EmptyString]
SigText(str) == [kind |-> "string", sig |-> NoSignature, str |-> str]
SigUndefined == [kind |-> "undefined", sig |-> NoSignature, str |-> EmptyString]

\* !!signature
Truthy(signature) ==
    \/ signature.kind = "object"
    \/ signature.kind = "string" /\ signature.str # EmptyString

SignatureFrom(signature) ==
    IF signature.kind = "object" THEN Ok(signature.sig)
    ELSE SignatureFromString(signature.str)

\* ethers.hashMessage(string): the EIP-191 digest of the string's UTF-8 bytes.
HashMessage(str) == Hashed("eip191", TextEncode(str))

\* ethers.recoverAddress(digest, sig): the signer's address when sig was made
\* over digest and carries its parity, and some unrelated address otherwise.
RecoverAddress(digest, sig) ==
    IF sig.core.over = digest /\ sig.core.parity = sig.v - 27
    THEN ComputeAddress(sig.core.signer)
    ELSE ComputeAddress(NoKey)

\* ethers.verifyMessage(message, signature)
VerifyMessage(str, signature) ==
    LET parsed == SignatureFrom(signature)
    IN  IF parsed.ok THEN Ok(RecoverAddress(HashMessage(str), parsed.value))
        ELSE Throw(ComputeAddress(NoKey), parsed.error)

-----------------------------------------------------------------------------
(* The verification effect: verify(), lines 469-699 *)

\* One library check made by a run: the scheme, the recovery id tried (0 when
\* the scheme has none) and how it ended: "match", "mismatch" or "throw".
Attempt(scheme, v, res) == [scheme |-> scheme, v |-> v, res |-> res]

\* How a run of verify() ends: it returns before setting anything ("skip"), it
\* sets a final outcome ("done"), or it is suspended on cryptoWaitReady
\* ("suspend") holding what it has computed so far.
NoClosure == [msgBytes |-> << >>, sigBytes |-> Bytes(0, GarbageCore), address |-> ComputeAddress(NoKey)]
Skip ==
    [kind |-> "skip", status |-> "none", message |-> "", attempts |-> << >>,
     error |-> "", closure |-> NoClosure]
Done(status, msg, att, error) ==
    [kind |-> "done", status |-> status, message |-> msg, attempts |-> att,
     error |-> error, closure |-> NoClosure]
Suspend(closure) ==
    [kind |-> "suspend", status |-> "pending", message |-> "", attempts |-> << >>,
     error |-> "", closure |-> closure]

\* A variant of Finish that lacks the default explanations of line 690.
FinishWithoutDefault(isVerified, verificationMsg, att) ==
    Done(IF isVerified THEN "verified" ELSE "failed", verificationMsg, att, "")

\* Lines 688-691: the final setVerificationResult of the try block.
Finish(isVerified, verificationMsg, att) ==
    Done(IF isVerified THEN "verified" ELSE "failed",
         IF verificationMsg # "" THEN verificationMsg
         ELSE IF isVerified THEN "Signature matches selected wallet address"
         ELSE "Signature verification failed",
         att, "")

\* The catch of a branch (lines 611-615, 621-625, 651-655, 668-672) followed
\* by lines 688-691: verificationMsg is the branch's prefix and the error.
FinishCaught(prefix, error, att) == Done("failed", prefix \o error, att, error)

\* A variant of Caught whose explanation leaves the error's message out.
CaughtWithoutMessage(error, att) == Done("failed", "Verification logic error", att, error)

\* Lines 692-698: the catch of verify().
Caught(error, att) == Done("failed", "Verification logic error: " \o error, att, error)

\* Lines 480-487: r, s, v are looked up inside result.signature, then at top level.
Truthier(a, b) == IF IsDefined(a) THEN a ELSE b
FieldR(res) == Truthier(IF res.sigIsObject THEN res.objR ELSE Undefined, res.r)
FieldS(res) == Truthier(IF res.sigIsObject THEN res.objS ELSE Undefined, res.s)
FieldV(res) == Truthier(IF res.sigIsObject THEN res.objV ELSE Undefined, res.v)

\* r.startsWith('0x') ? r : `0x${r}`
With0x(hex) == [hex EXCEPT !.pfx = TRUE]

\* sigStr.replace('0x', '')
Strip0x(str) == [str EXCEPT !.pfx = FALSE]

\* A variant of NormalizeV that hands v on as the service gave it.
NormalizeVUnchanged(v) == v

\* Line 497 and line 504: MPC returns 0 or 1, ethers expects 27 or 28.
NormalizeV(v) == IF v < 27 THEN v + 27 ELSE v

\* Lines 492-513: the signature handed to the verifiers.
BuildSignature(chainType, res) ==
    LET r == FieldR(res)
        s == FieldS(res)
        v == FieldV(res)
    IN  IF chainType = "evm" THEN
            IF IsDefined(r) /\ IsDefined(s) THEN
                LET vNormalized == IF IsDefined(v) THEN NormalizeV(Val(v)) ELSE 27
                    made == SignatureFromRSV(With0x(Val(r)), With0x(Val(s)), vNormalized)
                IN  IF made.ok THEN Ok(SigObject(made.value))
                    ELSE Throw(SigUndefined, made.error)
            ELSE IF res.sigStr # EmptyString THEN
                LET cleanSig == With0x(res.sigStr)
                IN  IF cleanSig.enc = "hex" /\ cleanSig.nbytes = 64 /\ IsDefined(v)
                    THEN Ok(SigText([cleanSig EXCEPT
                            !.nbytes = 65,
                            !.vbyte = IF NormalizeV(Val(v)) = 27 THEN 27 ELSE 28]))
                    ELSE Ok(SigText(cleanSig))
            ELSE Ok(SigUndefined)
        ELSE Ok(SigText(Strip0x(res.sigStr)))

AddressText(addr) == (IF addr.lower THEN "0x" ELSE "0X") \o addr.key

VText(v) == IF IsDefined(v) THEN ToString(Val(v)) ELSE "undefined"

SameAddress(a, b) == ToLowerCase(a) = ToLowerCase(b)

\* The recovery id a signature is first tried with (for the history only).
FirstV(signature) ==
    IF signature.kind = "object" THEN signature.sig.v
    ELSE IF signature.str.nbytes = 65 THEN signature.str.vbyte ELSE 27

\* Lines 532-542: one turn of the loop over [27, 28]; a throw is skipped.
TryV(str, rHex, sHex, tryV, address) ==
    LET trySig == SignatureFromRSV(rHex, sHex, tryV)
    IN  IF ~trySig.ok THEN "throw"
        ELSE IF SameAddress(RecoverAddress(HashMessage(str), trySig.value), address)
        THEN "match" ELSE "mismatch"

\* Lines 519-546: the EVM message branch.
VerifyEvmMessage(str, signature, res, address) ==
    LET first == VerifyMessage(str, signature)
        r == FieldR(res)
        s == FieldS(res)
        v == FieldV(res)
    IN  IF ~first.ok THEN Caught(first.error, << Attempt("evm", FirstV(signature), "throw") >>)
        ELSE IF SameAddress(first.value, address)
        THEN Finish(TRUE, "", << Attempt("evm", FirstV(signature), "match") >>)
        ELSE IF IsDefined(r) /\ IsDefined(s) THEN
            LET a0  == Attempt("evm", FirstV(signature), "mismatch")
                t27 == TryV(str, With0x(Val(r)), With0x(Val(s)), 27, address)
                t28 == TryV(str, With0x(Val(r)), With0x(Val(s)), 28, address)
            IN  IF t27 = "match" THEN
                    Finish(TRUE, "Verified with v=27 (MPC returned v=" \o VText(v) \o ")",
                           << a0, Attempt("evm", 27, t27) >>)
                ELSE IF t28 = "match" THEN
                    Finish(TRUE, "Verified with v=28 (MPC returned v=" \o VText(v) \o ")",
                           << a0, Attempt("evm", 27, t27), Attempt("evm", 28, t28) >>)
                ELSE Finish(FALSE,
                            "Address mismatch - recovered " \o AddressText(first.value)
                                \o " but wallet is " \o AddressText(address) \o ".",
                            << a0, Attempt("evm", 27, t27), Attempt("evm", 28, t28) >>)
        ELSE Finish(FALSE, "", << Attempt("evm", FirstV(signature), "mismatch") >>)

-----------------------------------------------------------------------------
(* Decoding signature strings and keys for the non-EVM chains *)

\* The number of characters of a signature string (0x not counted): two per
\* byte in hex, four per three bytes in padded base64, and the usual length
\* of a base58 number of that many bytes.
StrLen(str) ==
    IF str.enc = "hex" THEN 2 * str.nbytes
    ELSE IF str.enc = "b64" THEN 4 * ((str.nbytes + 2) \div 3)
    ELSE (str.nbytes * 1366) \div 1000 + (IF str.nbytes = 0 THEN 0 ELSE 1)

\* Every character belongs to the base58 alphabet (no 0, O, I, l, +, /, =).
\* A base58 string does; the model's hex and base64 strings hold a 0 or an =.
InBase58Alphabet(str) == str.enc = "b58" \/ str.nbytes = 0

\* ethers.getBytes of the string with 0x put in front.
GetSigBytes(str) ==
    IF str.enc = "hex" THEN Ok(Bytes(str.nbytes, str.core))
    ELSE Throw(Bytes(0, GarbageCore), "invalid BytesLike value")

\* bs58.decode(str): the bytes of a base58 string; bytes of no meaning for
\* another string written in base58 characters; an error otherwise.
Bs58Decode(str) ==
    IF str.enc = "b58" THEN Ok(Bytes(str.nbytes, str.core))
    ELSE IF InBase58Alphabet(str)
    THEN Ok(Bytes((StrLen(str) * 733) \div 1000, GarbageCore))
    ELSE Throw(Bytes(0, GarbageCore), "Non-base58 character")

\* fromBase64(str) of @cosmjs/encoding: the alphabet and a length that is a
\* multiple of four are required.
FromBase64(str) ==
    IF str.enc = "b64" THEN Ok(Bytes(str.nbytes, str.core))
    ELSE IF StrLen(str) % 4 = 0
    THEN Ok(Bytes((StrLen(str) * 3) \div 4, GarbageCore))
    ELSE Throw(Bytes(0, GarbageCore), "Invalid string. Length must be a multiple of 4")

\* Lines 567-586: the Solana signature decoding.
DecodeSolanaSignature(sigStr) ==
    LET isHex == sigStr.enc = "hex" /\ sigStr.nbytes > 0
    IN  IF isHex /\ StrLen(sigStr) = 128 THEN GetSigBytes(sigStr)
        ELSE LET b58 == Bs58Decode(sigStr)
             IN  IF b58.ok THEN b58
                 ELSE IF isHex THEN GetSigBytes(sigStr)
                 ELSE Throw(Bytes(0, GarbageCore), "Signature is not valid Hex or Base58")

\* Lines 644-647 and 659-662: the NEAR and Substrate signature decoding.
DecodeHexOrBase64(sigStr) ==
    IF sigStr.pfx \/ StrLen(sigStr) = 128 THEN GetSigBytes(sigStr)
    ELSE FromBase64(sigStr)

\* Lines 548-564: new web3.PublicKey(...) of the wallet's public key.
ParseSolanaPublicKey(w) ==
    IF w.publicKey \in {"0xhex", "hex", "b58"} THEN Ok(WalletKey)
    ELSE Throw(NoKey, "Invalid public key input")

\* Lines 628-639: PublicKey.from(...) of near-api-js.
ParseNearPublicKey(w) ==
    IF w.publicKey \in {"0xhex", "hex", "b58"} THEN Ok(WalletKey)
    ELSE Throw(NoKey, "Unknown key type")

\* encodedByHex ? ethers.getBytes(message) : new TextEncoder().encode(message)
MessageBytes(str, hex) ==
    IF ~hex THEN Ok(TextEncode(str))
    ELSE IF IsBytesLike(str) THEN Ok(GetBytes(str))
    ELSE Throw(<< >>, "invalid BytesLike value")

\* A variant of DetachedVerify that takes a signature of the wrong size for a
\* signature that does not match.
DetachedVerifyAnySize(over, sigBytes, key) ==
    Ok(sigBytes.nbytes = 64 /\ sigBytes.core.signer = key /\ sigBytes.core.over = over)

\* nacl.sign.detached.verify(msg, sig, publicKey) and the other detached
\* checks: a signature of the wrong size is an error, not a mismatch.
DetachedVerify(over, sigBytes, key) ==
    IF sigBytes.nbytes # 64 THEN Throw(FALSE, "bad signature size")
    ELSE Ok(sigBytes.core.signer = key /\ sigBytes.core.over = over)

Outcome(b) == IF b THEN "match" ELSE "mismatch"

\* '\x19Solana Signed Message:\n' followed by the message, hashed with SHA-256
SolanaPrefixedHash(msgBytes) == Hashed("solana-prefix-sha256", msgBytes)

\* A variant of VerifySolanaMessage that makes the hashed check first.
VerifySolanaHashedFirst(str, hex, signature, w) ==
    LET pubKey == ParseSolanaPublicKey(w)
        msgBytes == MessageBytes(str, hex)
        sigBytes == DecodeSolanaSignature(signature.str)
        raw == DetachedVerify(Raw(msgBytes.value), sigBytes.value, pubKey.value)
        hashed == DetachedVerify(SolanaPrefixedHash(msgBytes.value), sigBytes.value, pubKey.value)
    IN  IF ~pubKey.ok THEN Done("failed", "Invalid Solana Public Key: " \o pubKey.error, << >>, pubKey.error)
        ELSE IF ~msgBytes.ok THEN Caught(msgBytes.error, << >>)
        ELSE IF ~sigBytes.ok THEN FinishCaught("Solana verify error: ", sigBytes.error, << >>)
        ELSE IF ~hashed.ok THEN
            FinishCaught("Solana verify error: ", hashed.error, << Attempt("sol-hashed", 0, "throw") >>)
        ELSE IF hashed.value THEN
            Finish(TRUE, "Verified (Schema: Hashed with Prefix)", << Attempt("sol-hashed", 0, "match") >>)
        ELSE IF raw.value THEN
            Finish(TRUE, "Verified (Schema: Raw Message)",
                   << Attempt("sol-hashed", 0, "mismatch"), Attempt("sol-raw", 0, "match") >>)
        ELSE Finish(FALSE, "Solana signature verification failed",
                    << Attempt("sol-hashed", 0, "mismatch"), Attempt("sol-raw", 0, "mismatch") >>)

\* A variant of VerifySolanaMessage that makes the raw check only.
VerifySolanaRawOnly(str, hex, signature, w) ==
    LET pubKey == ParseSolanaPublicKey(w)
        msgBytes == MessageBytes(str, hex)
        sigBytes == DecodeSolanaSignature(signature.str)
        raw == DetachedVerify(Raw(msgBytes.value), sigBytes.value, pubKey.value)
    IN  IF ~pubKey.ok THEN Done("failed", "Invalid Solana Public Key: " \o pubKey.error, << >>, pubKey.error)
        ELSE IF ~msgBytes.ok THEN Caught(msgBytes.error, << >>)
        ELSE IF ~sigBytes.ok THEN FinishCaught("Solana verify error: ", sigBytes.error, << >>)
        ELSE IF ~raw.ok THEN
            FinishCaught("Solana verify error: ", raw.error, << Attempt("sol-raw", 0, "throw") >>)
        ELSE Finish(raw.value,
                    IF raw.value THEN "Verified (Schema: Raw Message)"
                    ELSE "Solana signature verification failed",
                    << Attempt("sol-raw", 0, Outcome(raw.value)) >>)

\* Lines 547-615: the Solana message branch.
VerifySolanaMessage(str, hex, signature, w) ==
    LET pubKey == ParseSolanaPublicKey(w)
        msgBytes == MessageBytes(str, hex)
        sigBytes == DecodeSolanaSignature(signature.str)
        raw == DetachedVerify(Raw(msgBytes.value), sigBytes.value, pubKey.value)
        hashed == DetachedVerify(SolanaPrefixedHash(msgBytes.value), sigBytes.value, pubKey.value)
    IN  IF ~pubKey.ok THEN Done("failed", "Invalid Solana Public Key: " \o pubKey.error, << >>, pubKey.error)
        ELSE IF ~msgBytes.ok THEN Caught(msgBytes.error, << >>)
        ELSE IF ~sigBytes.ok THEN FinishCaught("Solana verify error: ", sigBytes.error, << >>)
        ELSE IF ~raw.ok THEN
            FinishCaught("Solana verify error: ", raw.error, << Attempt("sol-raw", 0, "throw") >>)
        ELSE IF raw.value THEN
            Finish(TRUE, "Verified (Schema: Raw Message)", << Attempt("sol-raw", 0, "match") >>)
        ELSE IF hashed.value THEN
            Finish(TRUE, "Verified (Schema: Hashed with Prefix)",
                   << Attempt("sol-raw", 0, "mismatch"), Attempt("sol-hashed", 0, "match") >>)
        ELSE Finish(FALSE, "Solana signature verification failed",
                    << Attempt("sol-raw", 0, "mismatch"), Attempt("sol-hashed", 0, "mismatch") >>)

\* bitcoinMessage.verify(msg, address, signature, undefined, true): the
\* signature is base64 of 65 bytes (a header byte, r, s); anything else
\* throws, and so does the decoding of an address that is none.
BitcoinVerify(over, sigStr, address) ==
    IF ~(sigStr.enc = "b64" /\ sigStr.nbytes = 65) THEN Throw(FALSE, "Invalid signature length")
    ELSE IF ~IsAddress(address) THEN Throw(FALSE, "Invalid checksum")
    ELSE Ok(sigStr.core.over = over /\ ComputeAddress(sigStr.core.signer) = address)

\* Lines 616-625: the Bitcoin message branch.
VerifyBitcoinMessage(str, hex, signature, w) ==
    LET msg == MessageBytes(str, hex)
        v == BitcoinVerify(Hashed("bitcoin-magic-sha256d", msg.value), signature.str, w.address)
    IN  IF ~msg.ok THEN FinishCaught("BTC verify error: ", msg.error, << >>)
        ELSE IF ~v.ok THEN
            FinishCaught("BTC verify error: ", v.error, << Attempt("btc", 0, "throw") >>)
        ELSE Finish(v.value,
                    IF v.value THEN "Bitcoin signature verified"
                    ELSE "Bitcoin signature verification failed",
                    << Attempt("btc", 0, Outcome(v.value)) >>)

\* A variant of VerifyNearMessage that checks the signature against the
\* message bytes themselves.
VerifyNearRawMessage(str, hex, signature, w) ==
    LET pubKey == ParseNearPublicKey(w)
        msgBytes == MessageBytes(str, hex)
        sigBytes == DecodeHexOrBase64(signature.str)
        v == DetachedVerify(Raw(msgBytes.value), sigBytes.value, pubKey.value)
    IN  IF ~pubKey.ok THEN FinishCaught("NEAR verify error: ", pubKey.error, << >>)
        ELSE IF ~msgBytes.ok THEN FinishCaught("NEAR verify error: ", msgBytes.error, << >>)
        ELSE IF ~sigBytes.ok THEN FinishCaught("NEAR verify error: ", sigBytes.error, << >>)
        ELSE IF ~v.ok THEN
            FinishCaught("NEAR verify error: ", v.error, << Attempt("near-sha256", 0, "throw") >>)
        ELSE Finish(v.value,
                    IF v.value THEN "NEAR signature verified"
                    ELSE "NEAR signature verification failed",
                    << Attempt("near-sha256", 0, Outcome(v.value)) >>)

\* Lines 626-655: the NEAR message branch.
VerifyNearMessage(str, hex, signature, w) ==
    LET pubKey == ParseNearPublicKey(w)
        msgBytes == MessageBytes(str, hex)
        sigBytes == DecodeHexOrBase64(signature.str)
        v == DetachedVerify(Hashed("sha256", msgBytes.value), sigBytes.value, pubKey.value)
    IN  IF ~pubKey.ok THEN FinishCaught("NEAR verify error: ", pubKey.error, << >>)
        ELSE IF ~msgBytes.ok THEN FinishCaught("NEAR verify error: ", msgBytes.error, << >>)
        ELSE IF ~sigBytes.ok THEN FinishCaught("NEAR verify error: ", sigBytes.error, << >>)
        ELSE IF ~v.ok THEN
            FinishCaught("NEAR verify error: ", v.error, << Attempt("near-sha256", 0, "throw") >>)
        ELSE Finish(v.value,
                    IF v.value THEN "NEAR signature verified"
                    ELSE "NEAR signature verification failed",
                    << Attempt("near-sha256", 0, Outcome(v.value)) >>)

\* Lines 656-663: the Substrate branch up to `await cryptoWaitReady()`.
VerifySubstrateStart(str, hex, signature, w) ==
    LET msgBytes == MessageBytes(str, hex)
        sigBytes == DecodeHexOrBase64(signature.str)
    IN  IF ~msgBytes.ok THEN FinishCaught("Substrate verify error: ", msgBytes.error, << >>)
        ELSE IF ~sigBytes.ok THEN FinishCaught("Substrate verify error: ", sigBytes.error, << >>)
        ELSE Suspend([msgBytes |-> msgBytes.value, sigBytes |-> sigBytes.value,
                      address |-> w.address])

\* signatureVerify(hash, sig, address) of @polkadot/util-crypto: 64 to 66
\* bytes are accepted (66 and 65 carry a scheme byte), other lengths throw,
\* and so does decodeAddress of an address that is none.
SubstrateSignatureVerify(over, sigBytes, address) ==
    IF sigBytes.nbytes \notin 64..66
    THEN Throw(FALSE, "Invalid signature length, expected [64..66] bytes")
    ELSE IF ~IsAddress(address) THEN Throw(FALSE, "Invalid decoded address checksum")
    ELSE Ok(sigBytes.core.over = over /\ ComputeAddress(sigBytes.core.signer) = address)

\* A variant of VerifySubstrateResume that sets no final outcome after the await.
VerifySubstrateSilent(closure) == Done("pending", "", << >>, "")

\* Lines 665-672 and 688-691: the Substrate branch after the await.
VerifySubstrateResume(closure) ==
    LET v == SubstrateSignatureVerify(Hashed("blake2b-256", closure.msgBytes),
                                      closure.sigBytes, closure.address)
    IN  IF ~v.ok THEN
            FinishCaught("Substrate verify error: ", v.error, << Attempt("dot-blake2", 0, "throw") >>)
        ELSE Finish(v.value,
                    IF v.value THEN "Substrate signature verified"
                    ELSE "Substrate signature verification failed",
                    << Attempt("dot-blake2", 0, Outcome(v.value)) >>)

-----------------------------------------------------------------------------
(* Typed data, and the dispatch of verify() *)

\* The typed-data textarea: text that JSON.parse accepts (json) and the
\* structured data it then denotes (body), or text that it rejects.
TypedData(json, body) == [json |-> json, body |-> body]

\* JSON.stringify of the typed-data builder's template (lines 378-393).
BuilderTypedData == TypedData(TRUE, << 1 >>)

TypedDatas == { BuilderTypedData, TypedData(FALSE, << >>) }

\* TypedDataEncoder.hash(domain, types, message): the EIP-712 digest.
TypedDataHash(td) == Hashed("eip712", td.body)

\* Lines 677-680: the EVM typed-data branch.
VerifyEvmTypedData(td, signature, address) ==
    LET parsed == SignatureFrom(signature)
    IN  IF ~td.json THEN Caught("Unexpected token in JSON", << >>)
        ELSE IF ~parsed.ok THEN
            Caught(parsed.error, << Attempt("evm-typed", FirstV(signature), "throw") >>)
        ELSE LET isVerified == SameAddress(RecoverAddress(TypedDataHash(td), parsed.value), address)
             IN  Finish(isVerified, "",
                        << Attempt("evm-typed", parsed.value.v, Outcome(isVerified)) >>)

\* !!signResultData.signature
HasSignatureField(res) == res.sigIsObject \/ res.sigStr # EmptyString

\* What verify() reads: the page state of the render it was created in.
Context(w, st, str, hex, td, res) ==
    [wallet |-> w, signType |-> st, message |-> str, encodedByHex |-> hex,
     typedData |-> td, result |-> res]

\* Lines 515-686: the dispatch on sign type and chain type.
Dispatch(ctx, signature) ==
    LET chainType == ctx.wallet.type
    IN  IF ctx.signType = "message" THEN
            IF chainType = "evm" /\ Truthy(signature)
            THEN VerifyEvmMessage(ctx.message, signature, ctx.result, ctx.wallet.address)
            ELSE IF chainType = "sol"
            THEN VerifySolanaMessage(ctx.message, ctx.encodedByHex, signature, ctx.wallet)
            ELSE IF chainType = "btc"
            THEN VerifyBitcoinMessage(ctx.message, ctx.encodedByHex, signature, ctx.wallet)
            ELSE IF chainType = "near"
            THEN VerifyNearMessage(ctx.message, ctx.encodedByHex, signature, ctx.wallet)
            ELSE IF chainType = "dot"
            THEN VerifySubstrateStart(ctx.message, ctx.encodedByHex, signature, ctx.wallet)
            ELSE IF chainType = "cosmos"
            THEN Finish(Truthy(signature), "Cosmos signature presence confirmed", << >>)
            ELSE Finish(FALSE, "", << >>)
        ELSE IF ctx.signType = "typed-data" /\ chainType = "evm" /\ Truthy(signature)
        THEN VerifyEvmTypedData(ctx.typedData, signature, ctx.wallet.address)
        ELSE IF ctx.signType = "transaction"
        THEN Finish(HasSignatureField(ctx.result) \/ ctx.result.signedTransaction,
                    "Signature attached to transaction payload", << >>)
        ELSE Finish(Truthy(signature), "", << >>)

\* Lines 462-699: one run of the verification effect, up to its first await.
Verify(ctx) ==
    IF ~ctx.result.present THEN Skip
    ELSE IF ~HasSignatureField(ctx.result) /\ ~ctx.result.signedTransaction THEN Skip
    ELSE LET built == BuildSignature(ctx.wallet.type, ctx.result)
         IN  IF ~built.ok THEN Caught(built.error, << >>)
             ELSE Dispatch(ctx, built.value)

-----------------------------------------------------------------------------
(* What the custody service may answer to a signing request *)

Contents == { << "h", "i" >>, << >> }

\* The byte strings a service may take a message string to stand for: its
\* UTF-8 bytes, and the bytes it spells when it is hex.
MessageVariants(str) ==
    { TextEncode(str) } \cup (IF IsBytesLike(str) THEN { GetBytes(str) } ELSE { })

\* What a service may sign for a request: every digest or byte string a
\* verifier of the chain may be looking for.
SignedOver(chainType, st, str, td) ==
    IF st = "typed-data" THEN { TypedDataHash(td) }
    ELSE IF st # "message" THEN { Hashed("transaction", << >>) }
    ELSE UNION { CASE chainType = "evm" -> { Hashed("eip191", b) }
                   [] chainType = "sol" -> { Raw(b), SolanaPrefixedHash(b) }
                   [] chainType = "btc" -> { Hashed("bitcoin-magic-sha256d", b) }
                   [] chainType = "near" -> { Hashed("sha256", b), Raw(b) }
                   [] chainType = "dot" -> { Hashed("blake2b-256", b) }
                   [] OTHER -> { Hashed("sha256", b) }
                 : b \in MessageVariants(str) }

\* The signatures a service may return: by the wallet's key with either
\* parity, or by another key.
WalletCores(chainType, st, str, td) ==
    { Core(WalletKey, o, p) :
        o \in SignedOver(chainType, st, str, td),
        p \in IF chainType = "evm" THEN {0, 1} ELSE {0} }

OtherCores(chainType, st, str, td) ==
    { Core(OtherKey, o, 0) : o \in SignedOver(chainType, st, str, td) }

\* The recovery ids a result may carry: none, MPC style, Ethereum style, and
\* one that is neither (2, which line 497 takes to 29).
RecoveryIds == { Undefined, Some(0), Some(1), Some(2), Some(27), Some(28) }

\* The shapes of an EVM result: r, s, v at top level or inside signature, a
\* 64-byte string with v beside it, a 65-byte string, a malformed r, a short
\* string.
EvmResults(c) ==
    LET full == SigString("hex", TRUE, 65, c, 27 + c.parity)
        rs64 == SigString("hex", FALSE, 64, c, 0)
    IN  { TopLevelResult(full, Some(RS(FALSE, TRUE, c)), Some(RS(FALSE, TRUE, c)), v) :
            v \in RecoveryIds }
        \cup { TopLevelResult(rs64, Undefined, Undefined, v) : v \in RecoveryIds }
        \cup { NestedResult(full, Some(RS(TRUE, TRUE, c)), Some(RS(TRUE, TRUE, c)), Some(1 - c.parity)),
               StringResult(full),
               TopLevelResult(full, Some(RS(FALSE, FALSE, c)), Some(RS(FALSE, TRUE, c)), Some(0)),
               StringResult(SigString("hex", TRUE, 63, c, 0)) }

OtherResults(chainType, c) ==
    { StringResult(str) :
        str \in CASE chainType = "sol" ->
                        { SigString("hex", TRUE, 64, c, 0), SigString("b58", FALSE, 64, c, 0),
                          SigString("b64", FALSE, 64, c, 0), SigString("hex", FALSE, 63, c, 0) }
                  [] chainType = "btc" ->
                        { SigString("b64", FALSE, 65, c, 0), SigString("hex", TRUE, 65, c, 0) }
                  [] chainType = "cosmos" ->
                        { SigString("b64", FALSE, 64, c, 0) }
                  [] OTHER ->
                        { SigString("hex", TRUE, 64, c, 0), SigString("b64", FALSE, 64, c, 0),
                          SigString("hex", FALSE, 63, c, 0), SigString("b64", FALSE, 63, c, 0) } }

\* A signature by somebody else, in the chain's usual shape.
ForeignResult(chainType, c) ==
    IF chainType = "evm"
    THEN TopLevelResult(SigString("hex", TRUE, 65, c, 27),
                        Some(RS(FALSE, TRUE, c)), Some(RS(FALSE, TRUE, c)), Some(27))
    ELSE StringResult(SigString(IF chainType = "btc" THEN "b64" ELSE "hex", TRUE,
                                IF chainType = "btc" THEN 65 ELSE 64, c, 0))

\* A result with no signature at all, with and without a signed transaction.
BareResults == { StringResult(EmptyString),
                 [StringResult(EmptyString) EXCEPT !.signedTransaction = TRUE] }

\* The answers to a transaction or delegate-action request (api.ts lines
\* 254-266): signature is an object holding the signature string, which may
\* be empty; a transaction answer carries the signed transaction besides.
PayloadResults(st, c) ==
    { [NestedResult(str, Undefined, Undefined, Undefined)
          EXCEPT !.signedTransaction = (st = "transaction")] :
        str \in { SigString("b64", FALSE, 64, c, 0), EmptyString } }

ServiceResults(w, st, str, td) ==
    BareResults
    \cup { ForeignResult(w.type, c) : c \in OtherCores(w.type, st, str, td) }
    \cup IF st \in {"message", "typed-data"}
         THEN UNION { IF w.type = "evm" THEN EvmResults(c) ELSE OtherResults(w.type, c) :
                      c \in WalletCores(w.type, st, str, td) }
         ELSE UNION { PayloadResults(st, c) : c \in WalletCores(w.type, st, str, td) }

-----------------------------------------------------------------------------
(* The page: rendering, effects and the operator's actions *)

SignTypes == {"message", "typed-data", "transaction", "delegate-action"}

\* chains.ts: supportsSignTypedData, supportsSignTransaction, supportsSignDelegateAction.
Supports(chainType, st) ==
    CASE st = "message" -> TRUE
      [] st = "typed-data" -> chainType = "evm"
      [] st = "transaction" -> chainType # "btc"
      [] st = "delegate-action" -> chainType = "near"

\* Lines 366-376: the message textarea follows the builder and the hex toggle.
SyncedMessage(content, hex) ==
    IF hex THEN (IF content = << >> THEN << >>
                 ELSE << "0", "x" >> \o BytesToHex(TextEncode(content)))
    ELSE content

\* What setVerificationResult, the suspended runs and the history hold.
Verification(vr, susp, att, on, err) ==
    [vr |-> vr, susp |-> susp, att |-> att, on |-> on, err |-> err]

\* A suspended run: what it holds for its continuation (closure) and, for the
\* history, the page state it was made on.
Suspended(closure, ctx) == [closure |-> closure, on |-> ctx]

\* The dependency list of the verification effect, line 702.
VerifyDeps(ctx) ==
    << ctx.result, ctx.wallet, ctx.signType, ctx.message, ctx.typedData, ctx.encodedByHex >>

\* A variant of ApplyOut that keeps an outcome once it is verified: a run that
\* ends leaves the earlier verified outcome in place.
ApplyOutKeepingVerified(v, ctx, out) ==
    IF out.kind = "skip" THEN v
    ELSE IF out.kind = "done"
    THEN Verification(IF v.vr.status = "verified" THEN v.vr
                      ELSE [status |-> out.status, message |-> out.message],
                      v.susp, out.attempts, ctx, out.error)
    ELSE Verification([status |-> "pending", message |-> ""],
                      Append(v.susp, Suspended(out.closure, ctx)), << >>, ctx, "")

\* The state changes a run of verify() that ended as `out` has made before it
\* returned or awaited.
ApplyOut(v, ctx, out) ==
    IF out.kind = "skip" THEN v
    ELSE IF out.kind = "done"
    THEN Verification([status |-> out.status, message |-> out.message], v.susp,
                      out.attempts, ctx, out.error)
    ELSE Verification([status |-> "pending", message |-> ""],
                      Append(v.susp, Suspended(out.closure, ctx)), << >>, ctx, "")

\* The verification effect on a render with page state ctx, after one with
\* page state prev: verify() runs when a dependency changed.
ApplyRun(v, prev, ctx) ==
    IF VerifyDeps(ctx) # VerifyDeps(prev) THEN ApplyOut(v, ctx, Verify(ctx)) ELSE v

\* The sync effect (lines 363-459) applied to a context: in message mode the
\* message is rebuilt, in typed-data mode the typed data is.
Synced(ctx, content) ==
    [ctx EXCEPT
        !.message = IF ctx.signType = "message"
                    THEN SyncedMessage(content, ctx.encodedByHex) ELSE @,
        !.typedData = IF ctx.signType = "typed-data" THEN BuilderTypedData ELSE @]

CurrentContext == Context(wallet, signType, message, encodedByHex, typedData, result)

\* The history's page state when no run has set verificationResult.
NoRun == Context(CHOOSE w \in Wallets : TRUE, "message", << >>, FALSE, BuilderTypedData, NoResult)

\* The state a handler leaves behind for the effects: vrNow is what it set
\* verificationResult to; clearing it forgets the run that had set it.
AfterHandler(vrNow) ==
    IF vrNow = verificationResult
    THEN Verification(vrNow, suspended, attempts, ranOn, raised)
    ELSE Verification(vrNow, suspended, << >>, NoRun, "")

\* The renders are over: `last` is the page state and v the verification state.
Commit(last, content, v) ==
    /\ steps < MaxSteps
    /\ steps' = steps + 1
    /\ Len(v.susp) <= MaxSuspended
    /\ wallet' = last.wallet
    /\ signType' = last.signType
    /\ message' = last.message
    /\ encodedByHex' = last.encodedByHex
    /\ typedData' = last.typedData
    /\ result' = last.result
    /\ msgContent' = content
    /\ verificationResult' = v.vr
    /\ suspended' = v.susp
    /\ attempts' = v.att
    /\ ranOn' = v.on
    /\ raised' = v.err
    /\ UNCHANGED backendVars

\* The effects of the render with page state `next`, and of the render that
\* follows when the sync effect changed the message or the typed data (`last`).
Effects(next, last, content, vrNow) ==
    Commit(last, content,
           ApplyRun(ApplyRun(AfterHandler(vrNow), CurrentContext, next), next, last))

\* A state change followed by React's effects.  `next` is the state the
\* handler set.  First the effects of that render run: the verification effect
\* when one of its dependencies changed.  When resync is set (a dependency of
\* the sync effect changed) the sync effect has set the message or typed data,
\* and when that changed them the next render runs the verification effect
\* once more.
Render(next, content, resync, vrNow) ==
    /\ location = "page"
    /\ Effects(next, IF resync THEN Synced(next, content) ELSE next, content, vrNow)
    /\ UNCHANGED custodyVars

\* The wallet selector, line 945.
SelectWallet(w) ==
    /\ w # wallet
    /\ Render([CurrentContext EXCEPT !.wallet = w], msgContent, TRUE, verificationResult)
    /\ UNCHANGED signing

\* The sign type tabs, lines 961-979: a tab the chain does not support is disabled.
SetSignType(st) ==
    /\ st # signType
    /\ Supports(wallet.type, st)
    /\ Render([CurrentContext EXCEPT !.signType = st], msgContent, TRUE, verificationResult)
    /\ UNCHANGED signing

\* The message builder, line 990 (shown in message mode).
SetMsgContent(content) ==
    /\ signType = "message"
    /\ content # msgContent
    /\ Render(CurrentContext, content, TRUE, verificationResult)
    /\ UNCHANGED signing

\* The 'Treat as Hex' toggle, line 1001 (shown in message mode).
ToggleHex ==
    /\ signType = "message"
    /\ Render([CurrentContext EXCEPT !.encodedByHex = ~encodedByHex], msgContent, TRUE,
              verificationResult)
    /\ UNCHANGED signing

\* The typed-data textarea, line 1099 (shown in typed-data mode).
SetTypedData(td) ==
    /\ signType = "typed-data"
    /\ td # typedData
    /\ Render([CurrentContext EXCEPT !.typedData = td], msgContent, FALSE, verificationResult)
    /\ UNCHANGED signing

\* handleSign up to its await, lines 734-890: the result and the verification
\* are cleared; unparseable typed data throws before any request is made.
HandleSignStart ==
    /\ ~signing
    /\ Render([CurrentContext EXCEPT !.result = NoResult], msgContent, FALSE, NoVerification)
    /\ signing' = (signType # "typed-data" \/ typedData.json)

\* handleSign after the await, line 892: the service answered.
HandleSignDone(res) ==
    /\ signing
    /\ Render([CurrentContext EXCEPT !.result = res], msgContent, FALSE, verificationResult)
    /\ signing' = FALSE

\* handleSign after the await, lines 894-899: the request failed.
HandleSignError ==
    /\ signing
    /\ Render(CurrentContext, msgContent, FALSE, NoVerification)
    /\ signing' = FALSE

\* The Clear button, line 1317.
ClearResult ==
    /\ result.present
    /\ Render([CurrentContext EXCEPT !.result = NoResult], msgContent, FALSE, verificationResult)
    /\ UNCHANGED signing

\* cryptoWaitReady() resolved: the oldest suspended run of verify() goes on
\* from line 665 to its setVerificationResult.
VerifyResume ==
    /\ location = "page"
    /\ suspended # << >>
    /\ LET out == VerifySubstrateResume(Head(suspended).closure)
       IN  /\ verificationResult' = [status |-> out.status, message |-> out.message]
           /\ attempts' = out.attempts
           /\ ranOn' = Head(suspended).on
           /\ raised' = out.error
    /\ suspended' = Tail(suspended)
    /\ UNCHANGED << wallet, signType, msgContent, encodedByHex, message, typedData,
                    result, signing, steps >>
    /\ UNCHANGED << custodyVars, backendVars >>

\* A page load without a challenge to return to.
NoChallenge == [status |-> "none", result |-> NoResult, meta |-> [kind |-> "none"]]

\* The sign page of a user without a customer identity: every request goes to
\* the organization's signing endpoints.
OrganizationOnly ==
    /\ customerId = ""
    /\ walletCustomer = ""
    /\ calls = << >>
    /\ location = "page"
    /\ challenge = NoChallenge
    /\ errorText = ""

\* A request and the response it got.  own is the customer identity of the
\* session user and listed the customerIds filter of the wallet query made,
\* Undefined when none was made; afterLogout and expired say what the token
\* presented was when the request came in.
Served(route, token, status, ran, afterLogout, expired, own, listed) ==
    [route |-> route, token |-> token, status |-> status, ran |-> ran,
     afterLogout |-> afterLogout, expired |-> expired, own |-> own, listed |-> listed]

\* The backend with an empty data directory, before any request.
StoreEmpty ==
    /\ users = << >>
    /\ sessions = << >>
    /\ clock = 0
    /\ hashing = << >>
    /\ creating = << >>
    /\ issued = 0
    /\ loggedOut = {}
    /\ response = Served("", 0, 0, FALSE, FALSE, FALSE, << >>, Undefined)

\* The page after construction (the useState initial values), for a wallet.
PageInit ==
    /\ signType = "message"
    /\ msgContent = << "h", "i" >>
    /\ encodedByHex = FALSE
    /\ message = << "h", "i" >>
    /\ typedData = BuilderTypedData
    /\ result = NoResult
    /\ verificationResult = NoVerification
    /\ signing = FALSE
    /\ suspended = << >>
    /\ attempts = << >>
    /\ ranOn = NoRun
    /\ raised = ""
    /\ steps = 0

Init ==
    /\ wallet \in Wallets
    /\ PageInit
    /\ OrganizationOnly
    /\ StoreEmpty

Next ==
    \/ \E w \in Wallets : SelectWallet(w)
    \/ \E st \in SignTypes : SetSignType(st)
    \/ \E content \in Contents : SetMsgContent(content)
    \/ ToggleHex
    \/ \E td \in TypedDatas : SetTypedData(td)
    \/ HandleSignStart
    \/ \E res \in ServiceResults(wallet, signType, message, typedData) : HandleSignDone(res)
    \/ HandleSignError
    \/ ClearResult
    \/ VerifyResume

Spec == Init /\ [][Next]_vars

\* The same, with what the scheduler guarantees: a promise that is resolved
\* has its continuation run.
FairSpec == Spec /\ WF_vars(VerifyResume)

-----------------------------------------------------------------------------
(* Custody modes: what handleSign sends, and the return from a challenge *)

Customers == {"", "cust1", "cust2"}

\* Lines 754, 775, 831, 878: the selected wallet belongs to the user's customer.
SelfCustody(cust, walletCust) == cust # "" /\ walletCust = cust

\* A call of the API client: the method, and the encodedByHex it is given
\* (Undefined when that argument is left out).
Call(api, hex) == [api |-> api, encodedByHex |-> hex]

ChallengeApis ==
    { "createCustomerSignMessageChallenge", "createCustomerSignTypedDataChallenge",
      "createCustomerSignTransactionChallenge", "createCustomerSignDelegateActionChallenge" }

OrgApis == { "signMessage", "signTypedData", "signTransaction", "signDelegateAction" }

\* A variant of SignCall that sends a transaction to the organization's
\* endpoint in either mode.
SignCallTransactionToOrg(st, hex, cust, walletCust) ==
    IF SelfCustody(cust, walletCust) /\ st # "transaction"
    THEN Call(CASE st = "message" -> "createCustomerSignMessageChallenge"
                [] st = "typed-data" -> "createCustomerSignTypedDataChallenge"
                [] OTHER -> "createCustomerSignDelegateActionChallenge", Undefined)
    ELSE Call(CASE st = "message" -> "signMessage"
                [] st = "typed-data" -> "signTypedData"
                [] st = "transaction" -> "signTransaction"
                [] OTHER -> "signDelegateAction",
              IF st = "message" THEN Some(hex) ELSE Undefined)

\* Lines 752-890: the call handleSign makes for the sign type.
SignCall(st, hex, cust, walletCust) ==
    CASE st = "message" ->
            IF SelfCustody(cust, walletCust)
            THEN Call("createCustomerSignMessageChallenge", Undefined)
            ELSE Call("signMessage", Some(hex))
      [] st = "typed-data" ->
            IF SelfCustody(cust, walletCust)
            THEN Call("createCustomerSignTypedDataChallenge", Undefined)
            ELSE Call("signTypedData", Undefined)
      [] st = "transaction" ->
            IF SelfCustody(cust, walletCust)
            THEN Call("createCustomerSignTransactionChallenge", Undefined)
            ELSE Call("signTransaction", Undefined)
      [] OTHER ->
            IF SelfCustody(cust, walletCust)
            THEN Call("createCustomerSignDelegateActionChallenge", Undefined)
            ELSE Call("signDelegateAction", Undefined)

\* For the history: a call with the page state it was made on.
Sent(call, st, hex, cust, walletCust) ==
    [call |-> call, signType |-> st, hex |-> hex, selfCustody |-> SelfCustody(cust, walletCust)]

LastCall == calls[Len(calls)].call

\* handleSign up to its await, lines 734-890, in either custody mode: the
\* result, the outcome and the error are cleared; typed data that does not
\* parse throws before any call is made.
HandleSign ==
    /\ location = "page"
    /\ ~signing
    /\ Effects([CurrentContext EXCEPT !.result = NoResult],
               [CurrentContext EXCEPT !.result = NoResult], msgContent, NoVerification)
    /\ IF signType = "typed-data" /\ ~typedData.json
       THEN /\ signing' = FALSE
            /\ calls' = calls
            /\ errorText' = "Unexpected token"
       ELSE /\ signing' = TRUE
            /\ calls' = Append(calls,
                   Sent(SignCall(signType, encodedByHex, customerId, walletCustomer),
                        signType, encodedByHex, customerId, walletCustomer))
            /\ errorText' = ""
    /\ UNCHANGED << customerId, walletCustomer, location, challenge >>

\* Lines 767-768, 781-782, 838-839, 885-886: the challenge was created, and
\* the browser leaves for the hosted page.
ChallengeCreated ==
    /\ location = "page"
    /\ signing
    /\ LastCall.api \in ChallengeApis
    /\ steps < MaxSteps
    /\ steps' = steps + 1
    /\ location' = "hosted"
    /\ signing' = FALSE
    /\ UNCHANGED << wallet, signType, msgContent, encodedByHex, message, typedData, result,
                    verificationResult, suspended, attempts, ranOn, raised,
                    customerId, walletCustomer, calls, challenge, errorText >>
    /\ UNCHANGED backendVars

\* Line 892: the organization endpoint answered.
SignAnswered ==
    /\ signing
    /\ LastCall.api \in OrgApis
    /\ \E res \in ServiceResults(wallet, signType, message, typedData) : HandleSignDone(res)

\* Lines 894-899: the call failed, whichever it was.
SignFailed ==
    /\ location = "page"
    /\ signing
    /\ Effects(CurrentContext, CurrentContext, msgContent, NoVerification)
    /\ signing' = FALSE
    /\ errorText' = "Request failed"
    /\ UNCHANGED << customerId, walletCustomer, calls, location, challenge >>

\* The wallet selector, line 945, choosing among the wallets of several customers.
SelectCustomerWallet(w, cust) ==
    /\ location = "page"
    /\ challenge = NoChallenge
    /\ w # wallet
    /\ Effects([CurrentContext EXCEPT !.wallet = w],
               Synced([CurrentContext EXCEPT !.wallet = w], msgContent),
               msgContent, verificationResult)
    /\ walletCustomer' = cust
    /\ UNCHANGED << signing, customerId, calls, location, challenge, errorText >>

\* challenge.metadata as the mount effect reads it (lines 292-334): what was
\* signed (kind), and for a message its text and the encodedByHex it records.
Meta(kind, hex, td) == [kind |-> kind, hex |-> hex, td |-> td]

Metas ==
    { Meta("message", FALSE, BuilderTypedData), Meta("message", TRUE, BuilderTypedData),
      Meta("typedData", FALSE, BuilderTypedData), Meta("transaction", FALSE, BuilderTypedData),
      Meta("none", FALSE, BuilderTypedData) }

\* The message text the metadata holds.
MetaContent == << "h", "i" >>

MetaSignType(meta, st) ==
    CASE meta.kind = "message" -> "message"
      [] meta.kind = "typedData" -> "typed-data"
      [] meta.kind = "transaction" -> "transaction"
      [] OTHER -> st

\* The challenges getChallenge may return for a wallet (api.ts lines 68-76).
Challenges(w) ==
    UNION { { [status |-> st, result |-> res, meta |-> meta] :
                st \in {"pending", "verified", "failed"},
                res \in {NoResult} \cup
                        ServiceResults(w, MetaSignType(meta, "message"),
                                       SyncedMessage(MetaContent, meta.hex), meta.td) } :
            meta \in Metas }

\* Lines 292-338: the state the mount effect sets for a verified challenge.
Adopted(ctx, ch) ==
    [ctx EXCEPT !.signType = MetaSignType(ch.meta, @),
                !.encodedByHex = IF ch.meta.kind = "message" /\ ch.meta.hex THEN TRUE ELSE @,
                !.typedData = IF ch.meta.kind = "typedData" THEN ch.meta.td ELSE @,
                !.result = ch.result]

\* The page state after construction.
FreshContext(w) == Context(w, "message", << "h", "i" >>, FALSE, BuilderTypedData, NoResult)

\* The effects of the first renders of a newly loaded page whose mount effect
\* has set the state `next`.
LoadCommit(w, next, content) ==
    Commit(Synced(next, content), content,
           ApplyRun(ApplyRun(Verification(NoVerification, << >>, << >>, NoRun, ""),
                             FreshContext(w), next),
                    next, Synced(next, content)))

\* A variant of Adopts that takes the result of a challenge in any status.
AdoptsAnyStatus(ch) == ch.result.present

\* Line 291: challenge.status === 'verified' && challenge.result
Adopts(ch) == ch.status = "verified" /\ ch.result.present

\* Lines 282-342: the browser comes back from the hosted page with a
\* challengeId, the page is loaded anew and the mount effect fetches the
\* challenge.  (The page's address is taken to name the wallet that signed.)
MountEffect(ch) ==
    /\ location' = "page"
    /\ challenge' = ch
    /\ signing' = FALSE
    /\ IF Adopts(ch)
       THEN /\ LoadCommit(wallet, Adopted(FreshContext(wallet), ch), MetaContent)
            /\ errorText' = ""
       ELSE /\ LoadCommit(wallet, FreshContext(wallet), << "h", "i" >>)
            /\ errorText' = IF ch.status # "verified"
                            THEN "Challenge status: " \o ch.status ELSE ""
    /\ UNCHANGED << customerId, walletCustomer, calls >>

ReturnFromChallenge ==
    /\ location = "hosted"
    /\ customerId # ""
    /\ \E ch \in Challenges(wallet) : MountEffect(ch)

\* Lines 343-346: getChallenge failed.
ReturnFetchFailed ==
    /\ location = "hosted"
    /\ location' = "page"
    /\ challenge' = NoChallenge
    /\ signing' = FALSE
    /\ LoadCommit(wallet, FreshContext(wallet), << "h", "i" >>)
    /\ errorText' = "Failed to load challenge results"
    /\ UNCHANGED << customerId, walletCustomer, calls >>

\* The wallets followed in both custody modes.
CustodyWallets == { w \in Wallets : w.type \in {"evm", "dot", "near"} /\ IsAddress(w.address)
                                      /\ w.publicKey # "bad" /\ ~w.address.lower }

CustodyInit ==
    /\ wallet \in CustodyWallets
    /\ PageInit
    /\ customerId \in {"", "cust1"}
    /\ walletCustomer \in Customers
    /\ calls = << >>
    /\ location = "page"
    /\ challenge = NoChallenge
    /\ errorText = ""
    /\ StoreEmpty

CustodyNext ==
    \/ HandleSign
    \/ ChallengeCreated
    \/ SignAnswered
    \/ SignFailed
    \/ \E w \in CustodyWallets, cust \in Customers : SelectCustomerWallet(w, cust)
    \/ ReturnFromChallenge
    \/ ReturnFetchFailed
    \/ \E st \in SignTypes : SetSignType(st)
    \/ ToggleHex
    \/ VerifyResume

CustodySpec == CustodyInit /\ [][CustodyNext]_vars

-----------------------------------------------------------------------------
(* The backend: the JSON store, the session middleware and the routes *)

Emails == {"a@x.io", "b@x.io"}

\* As many signups are followed as there are emails, and as many sessions.
MaxUsers == Cardinality(Emails)
MaxTokens == MaxUsers

\* Line 58 of auth.ts: a session lasts 24 hours, here one tick of the clock.
SessionTTL == 1

\* The clock is followed until a session of the first hour has expired.
MaxClock == SessionTTL + 1

\* The request presents no token.
NoToken == 0

\* storage.findUserByEmail and findUserById: the first match, or undefined.
FindUserByEmail(us, email) ==
    LET hits == SelectSeq(us, LAMBDA u : u.email = email)
    IN  IF hits = << >> THEN Undefined ELSE Some(Head(hits))

FindUserById(us, id) ==
    LET hits == SelectSeq(us, LAMBDA u : u.id = id)
    IN  IF hits = << >> THEN Undefined ELSE Some(Head(hits))

\* storage.createUser: pushed, whatever the collection holds.
CreateUser(us, user) == Append(us, user)

\* storage.updateUser: { ...users[index], ...updates }.
UpdateUser(us, id, updates) ==
    [i \in 1..Len(us) |->
        IF us[i].id = id /\ \A j \in 1..(i - 1) : us[j].id # id
        THEN [f \in DOMAIN us[i] |-> IF f \in DOMAIN updates THEN updates[f] ELSE us[i][f]]
        ELSE us[i]]

\* The user signup creates (lines 33-39 of auth.ts).
NewUser(id, email) ==
    [id |-> id, email |-> email, walletSetId |-> "", customerId |-> "", orgCustomerId |-> ""]

\* A variant of deleteSession that leaves the collection as it is.
DeleteSessionKeepsAll(ss, token) == ss

\* storage.deleteSession: every session with the token is filtered out.
DeleteSession(ss, token) == SelectSeq(ss, LAMBDA s : s.token # token)

\* storage.findSession: an expired session is deleted and not returned.
FindSession(ss, token, time) ==
    LET hits == SelectSeq(ss, LAMBDA s : s.token = token)
        session == IF hits = << >> THEN Undefined ELSE Some(Head(hits))
    IN  IF session # Undefined /\ Val(session).expiresAt < time
        THEN [sessions |-> DeleteSession(ss, token), session |-> Undefined]
        ELSE [sessions |-> ss, session |-> session]

\* storage.createSession
CreateSession(ss, session) == Append(ss, session)

\* Lines 57-63 and 103-109 of auth.ts: a new token, good for SessionTTL.
IssueSession(ss, userId) ==
    CreateSession(ss, [token |-> issued + 1, userId |-> userId, expiresAt |-> clock + SessionTTL])

\* sessionMiddleware: 401 without a token, without a session for it, or
\* without the session's user; otherwise the handler runs for that user.
SessionMiddleware(token) ==
    IF token = NoToken
    THEN [status |-> 401, user |-> Undefined, sessions |-> sessions]
    ELSE LET found == FindSession(sessions, token, clock)
         IN  IF found.session = Undefined
             THEN [status |-> 401, user |-> Undefined, sessions |-> found.sessions]
             ELSE LET user == FindUserById(users, Val(found.session).userId)
                  IN  [status |-> IF user = Undefined THEN 401 ELSE 200,
                       user |-> user, sessions |-> found.sessions]

\* For the history: the store holds a session for the token, and its time has passed.
Expired(token) ==
    \E i \in 1..Len(sessions) : sessions[i].token = token /\ sessions[i].expiresAt < clock

\* Line 64 of wallets.ts: customerId and orgCustomerId, joined by a comma.
UserCustomerIds(user) ==
    IF user.customerId # ""
    THEN IF user.orgCustomerId # "" THEN << user.customerId, user.orgCustomerId >>
                                    ELSE << user.customerId >>
    ELSE IF user.orgCustomerId # "" THEN << user.orgCustomerId >> ELSE << >>

\* The response to a request to a session-protected route.
Answered(route, token, status, ran, own, listed) ==
    Served(route, token, status, ran, token \in loggedOut, Expired(token), own, listed)

\* A request comes in.
Received ==
    /\ steps < MaxSteps
    /\ steps' = steps + 1

\* The middleware ended the request.
Rejected(route, token, mw) ==
    /\ sessions' = mw.sessions
    /\ response' = Answered(route, token, 401, FALSE, << >>, Undefined)
    /\ UNCHANGED << users, clock, hashing, creating, issued, loggedOut >>

\* POST /auth/signup up to `await bcrypt.hash`, lines 15-30 of auth.ts.
SignupStart(email) ==
    /\ Received
    /\ IF email = ""
       THEN /\ response' = Served("POST /auth/signup", NoToken, 400, TRUE, FALSE, FALSE,
                                  << >>, Undefined)
            /\ hashing' = hashing
       ELSE IF FindUserByEmail(users, email) # Undefined
       THEN /\ response' = Served("POST /auth/signup", NoToken, 409, TRUE, FALSE, FALSE,
                                  << >>, Undefined)
            /\ hashing' = hashing
       ELSE /\ Len(users) + Len(hashing) < MaxUsers
            /\ hashing' = Append(hashing, email)
            /\ response' = response
    /\ UNCHANGED << users, sessions, clock, creating, issued, loggedOut >>
    /\ UNCHANGED << pageVars, custodyVars >>

\* The session and the 201 that end a signup, lines 56-73 of auth.ts.
SignupDone(us, userId) ==
    /\ issued < MaxTokens
    /\ users' = us
    /\ sessions' = IssueSession(sessions, userId)
    /\ issued' = issued + 1
    /\ response' = Served("POST /auth/signup", NoToken, 201, TRUE, FALSE, FALSE,
                          << >>, Undefined)

\* The hash is there, lines 32-54: the user is created; in organization mode
\* the handler then waits for the wallet set.
SignupHashed(i, custodyMode) ==
    /\ steps' = steps
    /\ i \in 1..Len(hashing)
    /\ hashing' = SubSeq(hashing, 1, i - 1) \o SubSeq(hashing, i + 1, Len(hashing))
    /\ LET userId == Len(users) + 1
           created == CreateUser(users, NewUser(userId, hashing[i]))
       IN  IF custodyMode = "organization"
           THEN /\ users' = created
                /\ creating' = Append(creating, userId)
                /\ UNCHANGED << sessions, issued, response >>
           ELSE /\ SignupDone(created, userId)
                /\ creating' = creating
    /\ UNCHANGED << clock, loggedOut >>
    /\ UNCHANGED << pageVars, custodyVars >>

\* createWalletSet answered or failed, lines 45-53 of auth.ts.
SignupWalletSet(i, created) ==
    /\ steps' = steps
    /\ i \in 1..Len(creating)
    /\ creating' = SubSeq(creating, 1, i - 1) \o SubSeq(creating, i + 1, Len(creating))
    /\ SignupDone(IF created THEN UpdateUser(users, creating[i], [walletSetId |-> "ws"])
                  ELSE users, creating[i])
    /\ UNCHANGED << clock, hashing, loggedOut >>
    /\ UNCHANGED << pageVars, custodyVars >>

\* POST /auth/login, lines 84-124 of auth.ts.  (Nothing that the handler reads
\* after `await bcrypt.compare` can have changed: users are never removed.)
Login(email, validPassword) ==
    /\ Received
    /\ LET user == FindUserByEmail(users, email)
       IN  IF user = Undefined \/ ~validPassword
           THEN /\ response' = Served("POST /auth/login", NoToken, 401, TRUE, FALSE, FALSE,
                                      << >>, Undefined)
                /\ UNCHANGED << sessions, issued >>
           ELSE /\ issued < MaxTokens
                /\ sessions' = IssueSession(sessions, Val(user).id)
                /\ issued' = issued + 1
                /\ response' = Served("POST /auth/login", NoToken, 200, TRUE, FALSE, FALSE,
                                      << >>, Undefined)
    /\ UNCHANGED << users, clock, hashing, creating, loggedOut >>
    /\ UNCHANGED << pageVars, custodyVars >>

\* POST /auth/logout, lines 130-141 of auth.ts.
Logout(token) ==
    /\ Received
    /\ LET mw == SessionMiddleware(token)
       IN  IF mw.status = 401
           THEN Rejected("POST /auth/logout", token, mw)
           ELSE /\ sessions' = DeleteSession(mw.sessions, token)
                /\ loggedOut' = loggedOut \cup {token}
                /\ response' = Answered("POST /auth/logout", token, 200, TRUE,
                                        UserCustomerIds(Val(mw.user)), Undefined)
                /\ UNCHANGED << users, clock, hashing, creating, issued >>
    /\ UNCHANGED << pageVars, custodyVars >>

\* The customerIds query parameter of GET /wallets: absent (or empty), or a list.
QueryCustomerIds == { << >>, << "cust1" >>, << "cust2" >> }

\* Line 76 of wallets.ts: customerIds ? customerIds : userCustomerIds
WalletFilter(customerIds, userCustomerIds) ==
    IF customerIds # << >> THEN customerIds ELSE userCustomerIds

\* GET /wallets, lines 58-87 of wallets.ts, with the shared wallet set
\* configured (getSharedWalletSetId returns it at once).
ListWallets(token, customerIds, status) ==
    /\ Received
    /\ LET mw == SessionMiddleware(token)
       IN  IF mw.status = 401
           THEN Rejected("GET /wallets", token, mw)
           ELSE /\ sessions' = mw.sessions
                /\ LET own == UserCustomerIds(Val(mw.user))
                   IN  response' =
                          IF own = << >>
                          THEN Answered("GET /wallets", token, 200, TRUE, own, Undefined)
                          ELSE Answered("GET /wallets", token, status, TRUE, own,
                                        Some(WalletFilter(customerIds, own)))
                /\ UNCHANGED << users, clock, hashing, creating, issued, loggedOut >>
    /\ UNCHANGED << pageVars, custodyVars >>

\* The customer the custody service creates for a user (refId = userId), and
\* the customer it files organization wallets under.
CustomerFor(userId) == IF userId = 1 THEN "cust1" ELSE "cust2"

OrgCustomer == "org"

\* POST /customers, lines 15-29 of customers.ts: the customer the custody
\* service created becomes the user's customerId.
CreateCustomer(token) ==
    /\ Received
    /\ LET mw == SessionMiddleware(token)
       IN  IF mw.status = 401
           THEN Rejected("POST /customers", token, mw)
           ELSE /\ sessions' = mw.sessions
                /\ users' = UpdateUser(users, Val(mw.user).id, [customerId |-> CustomerFor(Val(mw.user).id)])
                /\ response' = Answered("POST /customers", token, 201, TRUE,
                                        UserCustomerIds(Val(mw.user)), Undefined)
                /\ UNCHANGED << clock, hashing, creating, issued, loggedOut >>
    /\ UNCHANGED << pageVars, custodyVars >>

\* POST /wallets, lines 92-138 of wallets.ts: the customer of the first wallet
\* created becomes the user's orgCustomerId when the user has none.
CreateWallets(token) ==
    /\ Received
    /\ LET mw == SessionMiddleware(token)
       IN  IF mw.status = 401
           THEN Rejected("POST /wallets", token, mw)
           ELSE /\ sessions' = mw.sessions
                /\ users' = IF Val(mw.user).orgCustomerId = ""
                            THEN UpdateUser(users, Val(mw.user).id,
                                            [orgCustomerId |-> OrgCustomer])
                            ELSE users
                /\ response' = Answered("POST /wallets", token, 201, TRUE,
                                        UserCustomerIds(Val(mw.user)), Undefined)
                /\ UNCHANGED << clock, hashing, creating, issued, loggedOut >>
    /\ UNCHANGED << pageVars, custodyVars >>

\* Time passes.
Tick ==
    /\ steps' = steps
    /\ clock < MaxClock
    /\ clock' = clock + 1
    /\ UNCHANGED << users, sessions, hashing, creating, issued, loggedOut, response >>
    /\ UNCHANGED << pageVars, custodyVars >>

\* The tokens a client can present: none, or one that was issued.
Tokens == 0..issued

BackendInit ==
    /\ wallet = CHOOSE w \in CustodyWallets : w.type = "evm"
    /\ PageInit
    /\ OrganizationOnly
    /\ StoreEmpty

BackendNext ==
    \/ \E email \in Emails \cup {""} : SignupStart(email)
    \/ \E i \in 1..MaxUsers, mode \in {"organization", "self-custody"} : SignupHashed(i, mode)
    \/ \E i \in 1..MaxUsers, created \in BOOLEAN : SignupWalletSet(i, created)
    \/ \E email \in Emails, validPassword \in BOOLEAN : Login(email, validPassword)
    \/ \E token \in Tokens : Logout(token)
    \/ \E token \in Tokens, customerIds \in QueryCustomerIds, status \in {200, 500} :
          ListWallets(token, customerIds, status)
    \/ \E token \in Tokens : CreateCustomer(token)
    \/ \E token \in Tokens : CreateWallets(token)
    \/ Tick

BackendSpec == BackendInit /\ [][BackendNext]_vars

-----------------------------------------------------------------------------
(* Properties *)

Resolved == verificationResult.status \in {"verified", "failed"}

\* The outcome shown was set by a run of verify() on the page state as it is
\* now: it is the outcome of verifying the request that is on the page.
Verifiable == ranOn = CurrentContext

EvmMessageRequest == Verifiable /\ wallet.type = "evm" /\ signType = "message"

\* The result carries r and s (the triple form), well formed and of one signature.
TripleForm ==
    /\ IsDefined(FieldR(result)) /\ IsDefined(FieldS(result))
    /\ Val(FieldR(result)).wf /\ Val(FieldS(result)).wf
    /\ Val(FieldR(result)).core = Val(FieldS(result)).core

\* The result carries neither r nor s but a 64-byte hex string (the combined form).
CombinedForm ==
    /\ ~IsDefined(FieldR(result)) /\ ~IsDefined(FieldS(result))
    /\ result.sigStr.enc = "hex" /\ result.sigStr.nbytes = 64

\* The (r, s) of the result, in either form.
ResultCore == IF TripleForm THEN Val(FieldR(result)).core ELSE result.sigStr.core

\* (r, s) with the correct parity recovers the wallet's address for the message.
RecoversWallet ==
    /\ TripleForm \/ CombinedForm
    /\ ResultCore.over = HashMessage(message)
    /\ SameAddress(ComputeAddress(ResultCore.signer), wallet.address)

\* v is the correct recovery id, in the MPC (0/1) or the Ethereum (27/28) convention.
CorrectV ==
    /\ IsDefined(FieldV(result))
    /\ Val(FieldV(result)) \in {ResultCore.parity, 27 + ResultCore.parity}

\* C1: an EVM message request whose (r, s) with the correct parity recovers the
\* wallet's address is verified, whether the recovery id is given as 0/1 or as
\* 27/28, in the triple form and in the combined form (64-byte string plus v).
C1_EvmVerifiedForEveryV ==
    (EvmMessageRequest /\ RecoversWallet /\ CorrectV)
        => verificationResult.status = "verified"

\* C1 witness: the combined form with the MPC recovery id 1 has been verified.
C1_Witness ==
    /\ EvmMessageRequest /\ RecoversWallet /\ CorrectV
    /\ CombinedForm
    /\ FieldV(result) = Some(1)
    /\ verificationResult.status = "verified"

\* C2 (as claimed): in EVM message verification, when the attempt with the
\* normalized v does not recover the wallet's address, 27 and 28 are retried;
\* when one of them recovers it the outcome is verified and the explanation
\* names that v, and when none does the outcome is failed.  As 27 and 28 are
\* both parities, every (r, s) of the wallet over the message is verified.
C2_RetryBothV ==
    (EvmMessageRequest /\ (TripleForm \/ CombinedForm) /\ IsDefined(FieldV(result)))
        => /\ RecoversWallet => verificationResult.status = "verified"
           /\ (RecoversWallet /\ ~CorrectV) =>
                 verificationResult.message =
                    "Verified with v=" \o ToString(27 + ResultCore.parity)
                        \o " (MPC returned v=" \o VText(FieldV(result)) \o ")"
           /\ ~RecoversWallet => verificationResult.status = "failed"

SolanaMessageRequest ==
    /\ Verifiable /\ wallet.type = "sol" /\ signType = "message"
    /\ ParseSolanaPublicKey(wallet).ok
    /\ MessageBytes(message, encodedByHex).ok

\* The signature bytes the Solana branch decodes the result to.
SolanaSigBytes == DecodeSolanaSignature(Strip0x(result.sigStr))

\* The decoded signature is the wallet key's ed25519 signature over `over`.
SolanaSignedOver(over) ==
    /\ SolanaSigBytes.ok
    /\ SolanaSigBytes.value.nbytes = 64
    /\ SolanaSigBytes.value.core.signer = WalletKey
    /\ SolanaSigBytes.value.core.over = over

SolanaRawBytes == Raw(MessageBytes(message, encodedByHex).value)

SolanaHashedBytes == Hashed("solana-prefix-sha256", MessageBytes(message, encodedByHex).value)

\* C3: the Solana branch makes the raw-message check first and the
\* hashed-with-prefix check only after a raw check that failed; a signature
\* valid over the raw message is verified as 'Verified (Schema: Raw Message)'
\* by the raw check alone.
C3_SolanaRawFirst ==
    /\ \A i \in 1..Len(attempts) :
          attempts[i].scheme = "sol-hashed"
              => i = 2 /\ attempts[1] = Attempt("sol-raw", 0, "mismatch")
    /\ (SolanaMessageRequest /\ SolanaSignedOver(SolanaRawBytes))
          => /\ verificationResult =
                   [status |-> "verified", message |-> "Verified (Schema: Raw Message)"]
             /\ attempts = << Attempt("sol-raw", 0, "match") >>

\* C3 witness: a signature over the raw message has been verified.
C3_Witness ==
    /\ SolanaMessageRequest /\ SolanaSignedOver(SolanaRawBytes)
    /\ verificationResult.status = "verified"
    /\ attempts = << Attempt("sol-raw", 0, "match") >>

\* C4: a Solana signature that is invalid over the raw message and valid over
\* SHA-256('\x19Solana Signed Message:\n' || message) is verified with the
\* explanation 'Verified (Schema: Hashed with Prefix)'.
C4_SolanaHashedFallback ==
    (SolanaMessageRequest /\ SolanaSignedOver(SolanaHashedBytes))
        => verificationResult =
              [status |-> "verified", message |-> "Verified (Schema: Hashed with Prefix)"]

\* C4 witness: the raw check failed and the hashed check verified the signature.
C4_Witness ==
    /\ SolanaMessageRequest /\ SolanaSignedOver(SolanaHashedBytes)
    /\ verificationResult.status = "verified"
    /\ attempts = << Attempt("sol-raw", 0, "mismatch"), Attempt("sol-hashed", 0, "match") >>

\* C5 (as claimed): a typed-data request for a chain that is not EVM ends
\* failed, with no signature check applied, and is never verified.
C5_TypedDataNonEvmFails ==
    (Verifiable /\ signType = "typed-data" /\ wallet.type # "evm")
        => verificationResult.status = "failed" /\ attempts = << >>

\* C6 (as claimed): for message and typed-data requests of every chain,
\* verified is reached only when a check of the run matched the signature
\* against the wallet's address or key.
C6_VerifiedOnlyByMatch ==
    (Verifiable /\ signType \in {"message", "typed-data"}
        /\ verificationResult.status = "verified")
        => \E i \in 1..Len(attempts) : attempts[i].res = "match"

\* C7 (as claimed): once the outcome for a result is verified or failed it
\* does not go back to pending while the result stays the same.
C7_NoReturnToPending ==
    [][(Resolved /\ result.present /\ result' = result /\ wallet' = wallet)
          => verificationResult'.status # "pending"]_vars

\* C8: a verification that is pending is eventually verified or failed.
C8_PendingResolves == (verificationResult.status = "pending") ~> Resolved

\* C8 witness: a run that was suspended on the crypto initialisation has set
\* its outcome.
C8_Witness ==
    /\ Resolved
    /\ attempts # << >>
    /\ attempts[1].scheme = "dot-blake2"

\* The prefixes verify() puts before the message of an error it caught.
ErrorPrefixes ==
    { "Verification logic error: ", "Invalid Solana Public Key: ", "Solana verify error: ",
      "BTC verify error: ", "NEAR verify error: ", "Substrate verify error: " }

\* C9: an error raised while verifying is caught in verify() and becomes the
\* outcome failed, with an explanation that contains the error's message.
C9_ErrorsBecomeFailed ==
    raised # ""
        => /\ verificationResult.status = "failed"
           /\ \E prefix \in ErrorPrefixes : verificationResult.message = prefix \o raised

\* C9 witness: typed data that is no JSON made JSON.parse throw, and the
\* outcome is failed.
C9_Witness ==
    /\ raised = "Unexpected token in JSON"
    /\ signType = "typed-data"
    /\ verificationResult.status = "failed"

\* C10: whenever the status is verified or failed an explanation is present.
C10_ExplanationPresent == Resolved => verificationResult.message # ""

\* C10 witness: the Solana branch ended on an invalid public key, the one
\* place that sets the outcome and returns.
C10_Witness ==
    /\ Resolved
    /\ wallet.type = "sol"
    /\ raised = "Invalid public key input"
    /\ verificationResult.message # ""

\* The presence test of line 473: a signature field or a signed transaction.
SignatureMaterial(res) == HasSignatureField(res) \/ res.signedTransaction

PayloadRequest == signType \in {"transaction", "delegate-action"} /\ result.present

\* C11 (as claimed): a transaction or delegate-action request is settled
\* without any scheme check: it is verified when the result holds signature
\* material (a signature or a signed transaction) and failed when it holds none.
C11_PayloadPresenceOnly ==
    PayloadRequest =>
        /\ (Verifiable /\ SignatureMaterial(result))
              => verificationResult.status = "verified" /\ attempts = << >>
        /\ ~SignatureMaterial(result) => verificationResult.status = "failed"

\* C12 (as claimed): with the hex toggle on, a message request of an evm, sol,
\* btc, near or dot wallet is verified only by a signature made over the bytes
\* the hex string spells, never over the characters of the string.
C12_HexDecodedBytes ==
    (Verifiable /\ signType = "message" /\ encodedByHex /\ IsBytesLike(message)
        /\ wallet.type \in {"evm", "sol", "btc", "near", "dot"}
        /\ verificationResult.status = "verified")
        => ResultCore.over.data = GetBytes(message)

\* The explanation of line 537: it names the recovery id that recovered the
\* address and the one the service had returned.
NamesRecoveryId(msg, v, returned) ==
    msg = "Verified with v=" \o ToString(v) \o " (MPC returned v=" \o VText(returned) \o ")"

\* C13 (as claimed): an EVM message verification that ends verified explains
\* which recovery id succeeded; so does one whose v = 0 was normalized to 27.
C13_ExplanationNamesV ==
    (EvmMessageRequest /\ verificationResult.status = "verified")
        => \E v \in {27, 28} : NamesRecoveryId(verificationResult.message, v, FieldV(result))

\* The checks of the last run were made by the EVM message branch.
EvmMessageRun ==
    /\ ranOn.wallet.type = "evm" /\ ranOn.signType = "message"
    /\ attempts # << >>

\* C14 (as claimed): in one EVM message verification the recovery ids are
\* tried in the order normalized v, 27, 28, no value is tried twice, and
\* nothing is tried after a recovery id has recovered the wallet's address.
C14_CandidatesOnceInOrder ==
    EvmMessageRun =>
        /\ \A i, j \in 1..Len(attempts) : i < j => attempts[i].v # attempts[j].v
        /\ \A i \in 2..Len(attempts) : attempts[i].v \in {27, 28}
        /\ \A i, j \in 2..Len(attempts) : i < j => attempts[i].v < attempts[j].v
        /\ \A i \in 1..Len(attempts) : attempts[i].res = "match" => i = Len(attempts)

\* The Solana checks an explanation of the Solana branch (lines 602-609)
\* mentions by name.
SchemasNoted(msg) ==
    CASE msg = "Verified (Schema: Raw Message)" -> {"sol-raw"}
      [] msg = "Verified (Schema: Hashed with Prefix)" -> {"sol-hashed"}
      [] OTHER -> { }

\* C15 (as claimed): a Solana signature that verifies under neither the raw
\* check nor the hashed-with-prefix check ends failed, and the explanation
\* notes both checks that were made.
C15_SolanaBothAttemptsNoted ==
    (SolanaMessageRequest
        /\ attempts = << Attempt("sol-raw", 0, "mismatch"), Attempt("sol-hashed", 0, "mismatch") >>)
        => /\ verificationResult.status = "failed"
           /\ SchemasNoted(verificationResult.message) = {"sol-raw", "sol-hashed"}

NearMessageRequest ==
    /\ Verifiable /\ wallet.type = "near" /\ signType = "message"
    /\ ParseNearPublicKey(wallet).ok
    /\ MessageBytes(message, encodedByHex).ok

\* The signature bytes the NEAR branch decodes the result to.
NearSigBytes == DecodeHexOrBase64(Strip0x(result.sigStr))

\* The decoded signature is the wallet key's ed25519 signature over `over`.
NearSignedOver(over) ==
    /\ NearSigBytes.ok
    /\ NearSigBytes.value.nbytes = 64
    /\ NearSigBytes.value.core.signer = WalletKey
    /\ NearSigBytes.value.core.over = over

\* C16: the NEAR branch makes one check, against the SHA-256 hash of the
\* message bytes: a signature over the hash is verified although it is not a
\* signature over the message bytes, and a signature over the message bytes
\* themselves is failed.
C16_NearHashedOnly ==
    NearMessageRequest =>
        /\ Len(attempts) <= 1
        /\ NearSignedOver(Hashed("sha256", MessageBytes(message, encodedByHex).value))
              => /\ verificationResult =
                       [status |-> "verified", message |-> "NEAR signature verified"]
                 /\ attempts = << Attempt("near-sha256", 0, "match") >>
        /\ NearSignedOver(Raw(MessageBytes(message, encodedByHex).value))
              => /\ verificationResult =
                       [status |-> "failed", message |-> "NEAR signature verification failed"]
                 /\ attempts = << Attempt("near-sha256", 0, "mismatch") >>

\* C16 witness: a signature over the message bytes themselves has been failed
\* by the one hashed check.
C16_Witness ==
    /\ NearMessageRequest
    /\ NearSignedOver(Raw(MessageBytes(message, encodedByHex).value))
    /\ verificationResult.status = "failed"
    /\ attempts = << Attempt("near-sha256", 0, "mismatch") >>

\* A message request of a chain whose signatures are detached 64-byte ones,
\* with a key and a message the branch accepts, whose verification has ended.
DetachedMessageRequest ==
    /\ Verifiable /\ signType = "message"
    /\ verificationResult.status # "pending"
    /\ \/ wallet.type = "sol" /\ ParseSolanaPublicKey(wallet).ok
       \/ wallet.type = "near" /\ ParseNearPublicKey(wallet).ok
       \/ wallet.type = "dot"
    /\ MessageBytes(message, encodedByHex).ok

\* The signature bytes the chain's branch decodes the result to.
DecodedSignature == IF wallet.type = "sol" THEN SolanaSigBytes ELSE NearSigBytes

\* The sizes of signature the chain's check accepts.
AcceptedSizes == IF wallet.type = "dot" THEN 64..66 ELSE {64}

\* What the libraries say of a signature of the wrong size.
SizeErrors == { "bad signature size", "Invalid signature length, expected [64..66] bytes" }

\* C17: a signature that decodes to a wrong number of bytes for the scheme
\* (63 where 64 are expected, for sol, near and dot) ends failed, never
\* verified, with an explanation that holds the library's message about the
\* size; the error is caught in the branch.
C17_WrongLengthFails ==
    (DetachedMessageRequest /\ DecodedSignature.ok
        /\ DecodedSignature.value.nbytes \notin AcceptedSizes)
        => /\ verificationResult.status = "failed"
           /\ raised \in SizeErrors
           /\ \E prefix \in ErrorPrefixes : verificationResult.message = prefix \o raised

\* C17 witness: a NEAR signature of 63 bytes, in base64, has been failed for
\* its size.
C17_Witness ==
    /\ DetachedMessageRequest /\ wallet.type = "near"
    /\ DecodedSignature.ok /\ DecodedSignature.value.nbytes = 63
    /\ verificationResult =
          [status |-> "failed", message |-> "NEAR verify error: bad signature size"]

\* The wallet's address or public key is not one of its chain.
MalformedIdentity ==
    CASE wallet.type = "sol" -> ~ParseSolanaPublicKey(wallet).ok
      [] wallet.type = "near" -> ~ParseNearPublicKey(wallet).ok
      [] OTHER -> ~IsAddress(wallet.address)

\* What the libraries say of an address or a key they cannot parse.
IdentityErrors ==
    { "Invalid public key input", "Unknown key type", "Invalid checksum",
      "Invalid decoded address checksum" }

\* C18 (as claimed): on every chain a message request for a wallet whose
\* address or public key cannot be parsed ends failed, with the parse error in
\* the explanation, unless another error ended the verification before; it
\* is never verified and never reported as a signature that does not match.
C18_MalformedIdentityFails ==
    (Verifiable /\ signType = "message" /\ verificationResult.status # "pending"
        /\ MalformedIdentity /\ raised \in IdentityErrors \cup {""})
        => /\ verificationResult.status = "failed"
           /\ raised \in IdentityErrors
           /\ \E prefix \in ErrorPrefixes : verificationResult.message = prefix \o raised

\* What a run of verify() on the inputs ctx sets when it ends, from its inputs
\* alone: the outcome of the run, after its continuation when it awaited.
RunOutcome(ctx) ==
    LET out == Verify(ctx)
        end == IF out.kind = "suspend" THEN VerifySubstrateResume(out.closure) ELSE out
    IN  [status |-> end.status, message |-> end.message]

DecodeErrors ==
    { "Signature is not valid Hex or Base58", "invalid BytesLike value",
      "Invalid string. Length must be a multiple of 4" }

\* C20 (as claimed): decoding the signature string of a result never fails:
\* for a message request on sol, near or dot with a signature string, the
\* chain's decoder yields bytes and the run ends in an ordinary verification
\* attempt, never in a decode error.
C20_DecodingNeverFails ==
    (DetachedMessageRequest /\ ~result.sigIsObject /\ result.sigStr # EmptyString)
        => /\ DecodedSignature.ok
           /\ raised \notin DecodeErrors

\* The encoding a signature string qualifies for first, probing in the order
\* 0x-prefixed hex, base58, base64: "none" for a string the order does not place
\* (the model's unprefixed hex strings hold a 0, so they are no base58).
FirstEncoding(str) ==
    IF str.pfx /\ str.enc = "hex" THEN "hex"
    ELSE IF str.enc \in {"b58", "b64"} THEN str.enc
    ELSE "none"

\* C21 (as claimed): the signature string of a result is decoded with the
\* first encoding it qualifies for (0x-prefixed hex before base58, base58
\* before base64), never with a later one: whenever the chain's decoder
\* yields bytes, they are the bytes the string spells in that encoding.
C21_FirstEncodingDecodes ==
    (DetachedMessageRequest /\ ~result.sigIsObject /\ result.sigStr # EmptyString
        /\ FirstEncoding(result.sigStr) # "none" /\ DecodedSignature.ok)
        => DecodedSignature.value = Bytes(result.sigStr.nbytes, result.sigStr.core)

\* C22 (as claimed): a signature written in base64, with no prefix, decodes
\* back to exactly the bytes that were encoded, on every chain that decodes a
\* signature string.
C22_Base64RoundTrip ==
    (DetachedMessageRequest /\ ~result.sigIsObject
        /\ result.sigStr.enc = "b64" /\ ~result.sigStr.pfx)
        => DecodedSignature = Ok(Bytes(result.sigStr.nbytes, result.sigStr.core))

\* C23 (as claimed): in EVM message verification with r and s present, the
\* outcome is verified whenever (r, s) recovers the wallet's address with 27 or
\* with 28, also when the recovery id the result carries makes the first
\* attempt raise an error.
C23_RaisingAttemptStillRetried ==
    (EvmMessageRequest /\ TripleForm /\ RecoversWallet)
        => verificationResult.status = "verified"

\* C24 (as claimed): overlapping runs of verify() do not disturb one another.
\* Once no run is suspended, a verified or failed outcome shown for a request
\* that verify() decides is the outcome of the run on the inputs now on the
\* page; and while a new signing request is under way the outcome it cleared
\* stays cleared.
C24_LatestRunDecides ==
    /\ (suspended = << >> /\ Resolved /\ Verify(CurrentContext).kind # "skip")
          => Verifiable
    /\ signing => verificationResult = NoVerification

\* The method each sign type has at the organization's signing endpoints and
\* among the customer challenges.
OrgApiOf(st) ==
    CASE st = "message" -> "signMessage"
      [] st = "typed-data" -> "signTypedData"
      [] st = "transaction" -> "signTransaction"
      [] OTHER -> "signDelegateAction"

ChallengeApiOf(st) ==
    CASE st = "message" -> "createCustomerSignMessageChallenge"
      [] st = "typed-data" -> "createCustomerSignTypedDataChallenge"
      [] st = "transaction" -> "createCustomerSignTransactionChallenge"
      [] OTHER -> "createCustomerSignDelegateActionChallenge"

\* C25: in self-custody mode handleSign creates the customer challenge of the
\* sign type and never calls the organization's endpoint; in every other case
\* it calls the organization's endpoint and creates no challenge.  The browser
\* is redirected only after a self-custody call, and a result that handleSign
\* has set comes from an organization call.
C25_CustodyRouting ==
    /\ \A i \in 1..Len(calls) :
          calls[i].call.api = IF calls[i].selfCustody THEN ChallengeApiOf(calls[i].signType)
                              ELSE OrgApiOf(calls[i].signType)
    /\ location = "hosted" => calls[Len(calls)].selfCustody
    /\ (result.present /\ challenge = NoChallenge)
          => (calls # << >> /\ ~calls[Len(calls)].selfCustody)

\* C25 witness: a transaction was sent as a customer challenge and the browser
\* has left for the hosted page.
C25_Witness ==
    /\ location = "hosted"
    /\ calls[Len(calls)].signType = "transaction"
    /\ calls[Len(calls)].call.api = "createCustomerSignTransactionChallenge"

\* C26: when the page is loaded on return from a challenge, the result is
\* adopted, and verification of it has started, only if the challenge is
\* verified and carries a result; otherwise no result is set, no verification
\* starts, and for a challenge that is not verified the error names its status.
C26_AdoptOnlyVerified ==
    [][(location = "hosted" /\ location' = "page")
          => IF challenge'.status = "verified" /\ challenge'.result.present
             THEN /\ result' = challenge'.result
                  /\ Verify(CurrentContext').kind # "skip"
                        => (ranOn' = CurrentContext' /\ verificationResult' # NoVerification)
             ELSE /\ result' = NoResult
                  /\ verificationResult' = NoVerification
                  /\ suspended' = << >>
                  /\ challenge'.status \in {"pending", "failed"}
                        => errorText' = "Challenge status: " \o challenge'.status]_vars

\* C26 witness: the result of a verified challenge is on the page and has been
\* verified.
C26_Witness ==
    /\ challenge.status = "verified"
    /\ result.present /\ result = challenge.result
    /\ verificationResult.status = "verified"

\* C27 (as claimed): a message request made with the hex flag on carries
\* encodedByHex = true in self-custody mode as it does in organization mode.
C27_HexFlagInBothModes ==
    \A i \in 1..Len(calls) :
        (calls[i].signType = "message" /\ calls[i].hex)
            => calls[i].call.encodedByHex = Some(TRUE)

\* The elements of a list of customer IDs.
IdsOf(ids) == { ids[i] : i \in 1..Len(ids) }

\* C28 (as claimed): GET /wallets queries the custody service only with
\* customer IDs of the session user, whatever the request's query parameters
\* are, and for a user without a customer identity it makes no query and
\* answers 200 with the empty list.
C28_OnlyOwnCustomerIds ==
    (response.route = "GET /wallets" /\ response.ran)
        => /\ response.listed # Undefined
                 => IdsOf(Val(response.listed)) \subseteq IdsOf(response.own)
           /\ response.own = << >>
                 => (response.listed = Undefined /\ response.status = 200)

\* C29: a request that presents a token for which logout has succeeded is
\* answered 401 and its handler does not run; a request that presents a token
\* whose session has expired is answered 401, its handler does not run, and
\* the session is gone from the store.
C29_LoggedOutOrExpiredRejected ==
    /\ response.afterLogout => (response.status = 401 /\ ~response.ran)
    /\ response.expired
          => /\ response.status = 401 /\ ~response.ran
             /\ \A i \in 1..Len(sessions) : sessions[i].token # response.token

\* C29 witness: a token was presented again after its logout and was rejected,
\* while another session is still in the store.
C29_Witness ==
    /\ response.afterLogout
    /\ response.status = 401
    /\ response.token \in loggedOut
    /\ sessions # << >>

\* C30 (as claimed): no two users of the store have the same email.
C30_UniqueEmails ==
    \A i, j \in 1..Len(users) : users[i].email = users[j].email => i = j

====
